---------------------------- MODULE Spec2Model ----------------------------
(***************************************************************************)
(* Model of the export pipeline of the Spine previewer: the hook           *)
(* use-pixi-spine.tsx (withExportSetup, calculateExportDimensions,         *)
(* calculateMaxAnimationBounds, takeScreenshot, exportToGif,               *)
(* exportToVideo), the zustand store (loadSpineAnimation, resetStore,      *)
(* setPremultipliedAlpha) and the control panel (handleExport,             *)
(* togglePlayback).                                                        *)
(*                                                                         *)
(* Numbers that the code computes with floating point division (scale,     *)
(* position, track time) are exact rationals [n, d] here; d = 0 is the     *)
(* value of 0/0 (NaN).  Durations are counted in sixtieths of a second.    *)
(***************************************************************************)
EXTENDS Integers, Sequences, FiniteSets, TLC

(***************************************************************************)
(* Bounds of the model                                                     *)
(***************************************************************************)
MaxSrc == 6
MaxReq == 2000

(***************************************************************************)
(* Arithmetic helpers                                                      *)
(***************************************************************************)
Abs(a) == IF a < 0 THEN -a ELSE a

Min(a, b) == IF a < b THEN a ELSE b

Max(a, b) == IF a > b THEN a ELSE b

\* Math.round on a non-negative quotient p/q (q > 0): floor(p/q + 1/2)
RoundDiv(p, q) == (2 * p + q) \div (2 * q)

\* Math.ceil on a non-negative quotient p/q (q > 0)
CeilDiv(p, q) == (p + q - 1) \div q

(***************************************************************************)
(* Dimension planner                                                       *)
(***************************************************************************)
MAX_GIF_HEIGHT == 1000

\* targetHeight = 0 stands for an absent (falsy) targetHeight
calculateExportDimensions_noClamp(originalWidth, originalHeight, targetHeight) ==
    IF targetHeight = 0
    THEN [width |-> originalWidth, height |-> originalHeight]
    ELSE LET height == targetHeight
             width == RoundDiv(height * originalWidth, originalHeight)
         IN  [width  |-> IF originalWidth % 2 = 0 /\ width % 2 # 0
                         THEN (IF Abs(width - 1) < 2 THEN width - 1 ELSE width + 1)
                         ELSE width,
              height |-> height]

calculateExportDimensions_truncating(originalWidth, originalHeight, targetHeight) ==
    IF targetHeight = 0
    THEN [width |-> originalWidth, height |-> originalHeight]
    ELSE LET height == Min(targetHeight, MAX_GIF_HEIGHT)
             width == (height * originalWidth) \div originalHeight
         IN  [width  |-> IF originalWidth % 2 = 0 /\ width % 2 # 0
                         THEN (IF Abs(width - 1) < 2 THEN width - 1 ELSE width + 1)
                         ELSE width,
              height |-> height]

calculateExportDimensions(originalWidth, originalHeight, targetHeight) ==
    IF targetHeight = 0
    THEN [width |-> originalWidth, height |-> originalHeight]
    ELSE LET height == Min(targetHeight, MAX_GIF_HEIGHT)
             width == RoundDiv(height * originalWidth, originalHeight)
         IN  [width  |-> IF originalWidth % 2 = 0 /\ width % 2 # 0
                         THEN (IF Abs(width - 1) < 2 THEN width - 1 ELSE width + 1)
                         ELSE width,
              height |-> height]

(***************************************************************************)
(* Rationals: [n, d] in lowest terms with d > 0; d = 0 is the result of a  *)
(* division by zero (n = 0: NaN, n = 1 or -1: +-Infinity).                 *)
(***************************************************************************)
RECURSIVE GCD(_, _)
GCD(a, b) == IF b = 0 THEN a ELSE GCD(b, a % b)

Sign(a) == IF a < 0 THEN -1 ELSE IF a > 0 THEN 1 ELSE 0

R(n, d) ==
    IF d = 0
    THEN [n |-> Sign(n), d |-> 0]
    ELSE LET g == GCD(Abs(n), Abs(d))
         IN  [n |-> (Sign(d) * n) \div g, d |-> Abs(d) \div g]

RInt(k) == R(k, 1)

RMul(a, b) == R(a.n * b.n, a.d * b.d)

RAdd(a, b) ==
    IF a.d = 0 /\ b.d = 0 THEN (IF a.n = b.n THEN a ELSE R(0, 0))
    ELSE IF a.d = 0 THEN a
    ELSE IF b.d = 0 THEN b
    ELSE R(a.n * b.d + b.n * a.d, a.d * b.d)

\* a <= b for finite a and b
RLeq(a, b) == a.n * b.d <= b.n * a.d

(***************************************************************************)
(* State                                                                   *)
(***************************************************************************)
VARIABLES
    srcW,               \* planner input: source width
    srcH,               \* planner input: source height
    reqH,               \* planner input: requested height, 0 = none
    dims,               \* planner output, or NoDims before the call
    samp,               \* locals of a calculateMaxAnimationBounds call
    pix,                \* one pixel of a GIF frame on its way to the encoder
    prog,               \* the transcoder's progress listeners and their calls
    ld,                 \* the store's premultipliedAlpha and its loads in flight
    skel,               \* the Spine objects: id -> fields
    spineAnimationRef,  \* spineAnimationRef.current: an id, or NoSpine
    isPaused,           \* animationStateRef.current.isPaused
    isExporting,        \* the hook's isExporting state
    isPlaying,          \* the control panel's isPlaying state
    pc,                 \* position of the export call in progress
    cbKind,             \* how the guarded callback will end
    spineCaptured,      \* withExportSetup's local `spine`
    snap,               \* withExportSetup's wasPaused/original* locals
    cbResult,           \* how the callback ended: [kind, err]
    outcome,            \* what the caller of the guard received: [kind, err]
    restored,           \* cleanup() has run in this call
    touched,            \* the callback has written the skeleton (observation)
    pre,                \* the skeleton's fields at guard entry (observation)
    spine,              \* store.spine: an id, or NoSpine
    isLoading,          \* store.isLoading, which the panel reads as isExporting
    urlsReady,          \* store.urls and store.files are all set
    loads,              \* loadSpineAnimation calls in flight
    toast,              \* the last notification of the control panel
    ex,                 \* locals of the export in progress
    ffmpegLoaded,       \* ffmpeg.loaded
    fsFrames,           \* frame files in the transcoder's storage
    fsOut               \* an output file is in the transcoder's storage

dimVars == <<srcW, srcH, reqH, dims, samp, pix, prog, ld>>

hookVars == <<skel, spineAnimationRef, isPaused, isExporting, isPlaying>>

callVars == <<pc, cbKind, spineCaptured, snap, cbResult, outcome, restored, touched, pre>>

appVars == <<spine, isLoading, urlsReady, loads, toast>>

exVars == <<ex, ffmpegLoaded, fsFrames, fsOut>>

vars == <<srcW, srcH, reqH, dims, samp, pix, prog, ld,
          skel, spineAnimationRef, isPaused, isExporting, isPlaying,
          pc, cbKind, spineCaptured, snap, cbResult, outcome, restored, touched, pre,
          spine, isLoading, urlsReady, loads, toast,
          ex, ffmpegLoaded, fsFrames, fsOut>>

NoDims == [width |-> -1, height |-> -1]

NoSpine == 0

MaxSkel == 2

SkelIds == 1..MaxSkel

MaxTick == 1

\* animation durations, in sixtieths of a second
Durations == {1, 4}

\* a freshly constructed Spine: identity transform, time scale 1
NewSkel(hasTrack, dur) ==
    [sx |-> RInt(1), sy |-> RInt(1), px |-> RInt(0), py |-> RInt(0),
     hasTrack |-> hasTrack, trackTime |-> RInt(0), timeScale |-> 1,
     dur |-> dur, destroyed |-> FALSE]

\* an id that no Spine object has been constructed for yet
Unborn == [NewSkel(FALSE, 0) EXCEPT !.destroyed = TRUE]

NoSnap == [wasPaused |-> FALSE, sx |-> RInt(0), sy |-> RInt(0),
           px |-> RInt(0), py |-> RInt(0), time |-> RInt(0)]

NoResult == [kind |-> "none", err |-> "none"]

\* values the interactive controller gives scale and position
ViewScales == {RInt(1), RInt(2)}

ViewPositions == {<<RInt(0), RInt(0)>>, <<RInt(4), RInt(3)>>}

\* values an arbitrary callback writes
CbValue == R(7, 2)

Errors == {"E1", "E2"}

MaxLoads == 2

MaxOptH == 1

\* video exports in a row, and progress events of one transcoder run
MaxExports == 3

MaxEvents == 3

\* loadSpineAnimation calls of one run
MaxRequests == 4

Formats == {"screenshot", "gif", "webm", "mp4"}

\* the export function handleExport's switch calls for a format
ExportFn(f) == IF f \in {"webm", "mp4"} THEN "video" ELSE f

NoBounds == [x |-> 0, y |-> 0, width |-> 0, height |-> 0]

NoEx ==
    [fmt |-> "none", optH |-> 0, noTarget |-> FALSE, total |-> 0, i |-> 0,
     bounds |-> NoBounds, width |-> 0, height |-> 0, scale |-> RInt(0),
     padX |-> 0, padY |-> 0, renderer |-> "none", frames |-> <<>>,
     written |-> 0, del |-> 0, encoded |-> FALSE, downloads |-> 0,
     failStep |-> "none", format |-> "none", sent |-> <<>>,
     codec |-> "none", pixFmt |-> "none", alphaSupported |-> TRUE,
     delFailed |-> 0]

\* the store after create(), the transcoder before its first use
AppIdle ==
    /\ spine = NoSpine
    /\ isLoading = FALSE
    /\ urlsReady = FALSE
    /\ loads = 0
    /\ toast = "none"
    /\ ex = NoEx
    /\ ffmpegLoaded = FALSE
    /\ fsFrames = {}
    /\ fsOut = FALSE

(***************************************************************************)
(* The idle state of the call bookkeeping                                  *)
(***************************************************************************)
CallIdle ==
    /\ pc = "idle"
    /\ cbKind = "none"
    /\ spineCaptured = NoSpine
    /\ snap = NoSnap
    /\ cbResult = NoResult
    /\ outcome = NoResult
    /\ restored = FALSE
    /\ touched = FALSE
    /\ pre = Unborn

CallIdleNext ==
    /\ pc' = "idle"
    /\ cbKind' = "none"
    /\ spineCaptured' = NoSpine
    /\ snap' = NoSnap
    /\ cbResult' = NoResult
    /\ outcome' = NoResult
    /\ restored' = FALSE
    /\ touched' = FALSE
    /\ pre' = Unborn

\* calculateMaxAnimationBounds before it is called: minX, minY at Infinity,
\* maxRight, maxBottom at -Infinity
NoSamp ==
    [phase |-> "idle", n |-> 0, i |-> 0, times |-> <<>>, seen |-> {},
     orig |-> [trackTime |-> R(0, 1), sx |-> R(0, 1), sy |-> R(0, 1),
               px |-> R(0, 1), py |-> R(0, 1)],
     minX |-> R(1, 0), minY |-> R(1, 0), maxRight |-> R(-1, 0), maxBottom |-> R(-1, 0),
     out |-> NoBounds]

\* a pixel nothing was drawn on, and the pixel bookkeeping before a frame
Transparent == [r |-> 0, g |-> 0, b |-> 0, a |-> 0]

NoPix == [src |-> Transparent, canvas |-> Transparent, out |-> Transparent,
          step |-> "idle"]

\* the module-level transcoder before any export: no listener
NoProg == [k |-> 0, phase |-> "idle", listeners |-> <<>>, ev |-> 0, own |-> 0,
           stale |-> {}]

\* the store once the files are uploaded: no load started yet, no spine
NoReq == [id |-> 0, pma |-> FALSE]

NoLd == [pma |-> FALSE, issued |-> 0, inflight |-> {}, spine |-> NoReq]

DimIdle ==
    /\ srcW = 1
    /\ srcH = 1
    /\ reqH = 0
    /\ dims = NoDims
    /\ samp = NoSamp
    /\ pix = NoPix
    /\ prog = NoProg
    /\ ld = NoLd

\* the event loop may run another handler only while no synchronous code of
\* the export call is running
AwaitPoints ==
    {"cb_pending", "vid_load", "vid_write", "vid_exec", "vid_read", "vid_del", "vid_delout"}

AtYield == pc \in ({"idle"} \cup AwaitPoints)

(***************************************************************************)
(* Interactive controller                                                  *)
(***************************************************************************)
\* animationControl("pause")
pauseAnimation ==
    /\ AtYield
    /\ spineAnimationRef # NoSpine
    /\ skel' = [skel EXCEPT ![spineAnimationRef].timeScale = 0]
    /\ isPaused' = TRUE
    /\ UNCHANGED <<spineAnimationRef, isExporting, isPlaying>>
    /\ UNCHANGED callVars
    /\ UNCHANGED <<dimVars, appVars, exVars>>

\* animationControl("play")
resumeAnimation ==
    /\ AtYield
    /\ spineAnimationRef # NoSpine
    /\ skel' = [skel EXCEPT ![spineAnimationRef].timeScale = 1]
    /\ isPaused' = FALSE
    /\ UNCHANGED <<spineAnimationRef, isExporting, isPlaying>>
    /\ UNCHANGED callVars
    /\ UNCHANGED <<dimVars, appVars, exVars>>

\* handleWheel / handlePinch, or setDefaultPositionAndScale from the resize
\* observer: scale.set(v) writes both components
Zoom ==
    /\ AtYield
    /\ spineAnimationRef # NoSpine
    /\ \E v \in ViewScales :
          /\ skel[spineAnimationRef].sx # v
          /\ skel' = [skel EXCEPT ![spineAnimationRef].sx = v,
                               ![spineAnimationRef].sy = v]
    /\ UNCHANGED <<spineAnimationRef, isPaused, isExporting, isPlaying>>
    /\ UNCHANGED callVars
    /\ UNCHANGED <<dimVars, appVars, exVars>>

\* handleDrag / the setDefaultPositionAndScale animation: position.set(x, y)
Drag ==
    /\ AtYield
    /\ spineAnimationRef # NoSpine
    /\ \E p \in ViewPositions :
          /\ skel[spineAnimationRef].px # p[1]
          /\ skel' = [skel EXCEPT ![spineAnimationRef].px = p[1],
                               ![spineAnimationRef].py = p[2]]
    /\ UNCHANGED <<spineAnimationRef, isPaused, isExporting, isPlaying>>
    /\ UNCHANGED callVars
    /\ UNCHANGED <<dimVars, appVars, exVars>>

\* the application ticker advances the track time by delta * timeScale
Tick ==
    /\ AtYield
    /\ spineAnimationRef # NoSpine
    /\ LET s == skel[spineAnimationRef]
       IN  /\ s.hasTrack
           /\ s.timeScale = 1
           /\ s.trackTime.d = 1
           /\ s.trackTime.n < MaxTick
           /\ skel' = [skel EXCEPT ![spineAnimationRef].trackTime = RInt(s.trackTime.n + 1)]
    /\ UNCHANGED <<spineAnimationRef, isPaused, isExporting, isPlaying>>
    /\ UNCHANGED callVars
    /\ UNCHANGED <<dimVars, appVars, exVars>>

(***************************************************************************)
(* Export session guard: withExportSetup                                   *)
(***************************************************************************)
\* the locals captured at entry
Snapshot(s, paused) ==
    [wasPaused |-> paused, sx |-> s.sx, sy |-> s.sy, px |-> s.px, py |-> s.py,
     time |-> IF s.hasTrack THEN s.trackTime ELSE RInt(0)]

\* the skeleton after `if (!wasPaused) spine.state.timeScale = 0`
Freeze(s, paused) == IF paused THEN s ELSE [s EXCEPT !.timeScale = 0]

cleanup_keepsPosition(s, sn) ==
    [s EXCEPT !.sx = sn.sx, !.sy = sn.sy,
              !.trackTime = IF s.hasTrack THEN sn.time ELSE @,
              !.timeScale = IF sn.wasPaused THEN @ ELSE 1]

\* the skeleton part of the guard's cleanup()
cleanup(s, sn) ==
    [s EXCEPT !.sx = sn.sx, !.sy = sn.sy, !.px = sn.px, !.py = sn.py,
              !.trackTime = IF s.hasTrack THEN sn.time ELSE @,
              !.timeScale = IF sn.wasPaused THEN @ ELSE 1]

cleanupFlag_stuck == TRUE

\* the flag part of the guard's cleanup(): setIsExporting(false)
cleanupFlag == FALSE

AfterCallback_skipOnFailure(kind) ==
    IF kind \in {"throw", "rejected"} THEN "deliver" ELSE "cleanup"

\* where the guard goes when the callback has ended: cleanup() runs in the
\* catch block, in result.finally and on the synchronous return alike
AfterCallback(kind) == "cleanup"

\* `throw error` in the catch block; finally() passes the rejection through
Propagated(e) == e

\* what the caller sees for each way the callback ended
Delivered(kind) ==
    CASE kind = "value" -> "returned"
      [] kind = "throw" -> "threw"
      [] kind = "resolved" -> "resolved"
      [] kind = "rejected" -> "rejected"

\* entry of withExportSetup up to the call of the callback
GuardEnter(id) ==
    /\ spineCaptured' = id
    /\ snap' = Snapshot(skel[id], isPaused)
    /\ pre' = skel[id]
    /\ isExporting' = TRUE
    /\ skel' = [skel EXCEPT ![id] = Freeze(@, isPaused)]
    /\ restored' = FALSE
    /\ touched' = FALSE
    /\ UNCHANGED <<spineAnimationRef, isPaused, isPlaying>>

\* the callback has ended (cbResult is set): go on to cleanup
GuardCleanup ==
    /\ pc = "cleanup"
    /\ skel' = [skel EXCEPT ![spineCaptured] = cleanup(@, snap)]
    /\ isExporting' = cleanupFlag
    /\ restored' = TRUE
    /\ pc' = "deliver"
    /\ UNCHANGED <<spineAnimationRef, isPaused, isPlaying>>
    /\ UNCHANGED <<cbKind, spineCaptured, snap, cbResult, outcome, touched, pre>>
    /\ UNCHANGED <<dimVars, appVars, exVars>>

\* the guard returns, rethrows, or its promise settles
GuardDeliver ==
    /\ pc = "deliver"
    /\ outcome' = [kind |-> Delivered(cbResult.kind), err |-> Propagated(cbResult.err)]
    /\ pc' = "settled"
    /\ UNCHANGED hookVars
    /\ UNCHANGED <<cbKind, spineCaptured, snap, cbResult, restored, touched, pre>>
    /\ UNCHANGED <<dimVars, appVars, exVars>>

(***************************************************************************)
(* The guard under an arbitrary callback                                   *)
(***************************************************************************)
CbKinds == {"syncReturn", "syncThrow", "asyncResolve", "asyncReject"}

\* a caller invokes withExportSetup(callback)
CallGuard ==
    /\ pc = "idle"
    /\ spineAnimationRef # NoSpine
    /\ \E k \in CbKinds : cbKind' = k
    /\ GuardEnter(spineAnimationRef)
    /\ pc' = "cb"
    /\ UNCHANGED <<cbResult, outcome>>
    /\ UNCHANGED <<dimVars, appVars, exVars>>

\* the callback writes the skeleton it was handed
CbMutate ==
    /\ pc \in {"cb", "cb_pending"}
    /\ LET s == skel[spineCaptured]
       IN  \E f \in {"sx", "sy", "px", "py", "trackTime"} :
             /\ f = "trackTime" => s.hasTrack
             /\ s[f] # CbValue
             /\ skel' = [skel EXCEPT ![spineCaptured][f] = CbValue]
    /\ touched' = TRUE
    /\ UNCHANGED <<spineAnimationRef, isPaused, isExporting, isPlaying>>
    /\ UNCHANGED <<pc, cbKind, spineCaptured, snap, cbResult, outcome, restored, pre>>
    /\ UNCHANGED <<dimVars, appVars, exVars>>

\* the synchronous part of the callback ends
CbEndSync ==
    /\ pc = "cb"
    /\ \/ /\ cbKind = "syncReturn"
          /\ cbResult' = [kind |-> "value", err |-> "none"]
          /\ pc' = AfterCallback("value")
       \/ /\ cbKind = "syncThrow"
          /\ \E e \in Errors : cbResult' = [kind |-> "throw", err |-> e]
          /\ pc' = AfterCallback("throw")
       \/ /\ cbKind \in {"asyncResolve", "asyncReject"}
          /\ cbResult' = cbResult
          /\ pc' = "cb_pending"
    /\ UNCHANGED hookVars
    /\ UNCHANGED <<cbKind, spineCaptured, snap, outcome, restored, touched, pre>>
    /\ UNCHANGED <<dimVars, appVars, exVars>>

\* the promise the callback returned settles
CbSettle ==
    /\ pc = "cb_pending"
    /\ \/ /\ cbKind = "asyncResolve"
          /\ cbResult' = [kind |-> "resolved", err |-> "none"]
          /\ pc' = AfterCallback("resolved")
       \/ /\ cbKind = "asyncReject"
          /\ \E e \in Errors : cbResult' = [kind |-> "rejected", err |-> e]
          /\ pc' = AfterCallback("rejected")
    /\ UNCHANGED hookVars
    /\ UNCHANGED <<cbKind, spineCaptured, snap, outcome, restored, touched, pre>>
    /\ UNCHANGED <<dimVars, appVars, exVars>>

\* the caller has observed the result
CallerContinues ==
    /\ pc = "settled"
    /\ ex.fmt = "none"
    /\ CallIdleNext
    /\ UNCHANGED hookVars
    /\ UNCHANGED <<dimVars, appVars, exVars>>

InitGuard ==
    /\ DimIdle
    /\ CallIdle
    /\ \E t \in BOOLEAN, d \in Durations :
          skel = [i \in SkelIds |-> IF i = 1 THEN NewSkel(t, d) ELSE Unborn]
    /\ spineAnimationRef = 1
    /\ isPaused = FALSE
    /\ isExporting = FALSE
    /\ isPlaying = TRUE
    /\ spine = 1
    /\ isLoading = FALSE
    /\ urlsReady = TRUE
    /\ loads = 0
    /\ toast = "none"
    /\ ex = NoEx
    /\ ffmpegLoaded = FALSE
    /\ fsFrames = {}
    /\ fsOut = FALSE

NextGuard ==
    \/ pauseAnimation
    \/ resumeAnimation
    \/ Zoom
    \/ Drag
    \/ Tick
    \/ CallGuard
    \/ CbMutate
    \/ CbEndSync
    \/ CbSettle
    \/ GuardCleanup
    \/ GuardDeliver
    \/ CallerContinues

SpecGuard == InitGuard /\ [][NextGuard]_vars

(***************************************************************************)
(* Bounds sampler: calculateMaxAnimationBounds                             *)
(***************************************************************************)
\* getLocalBounds() of the k-th pose of the loaded animation (input data)
FrameBounds(k) ==
    IF k = 0 THEN [x |-> -2, y |-> -6, width |-> 4, height |-> 6]
             ELSE [x |-> -3, y |-> -5, width |-> 5, height |-> 3]

\* the pose shown at track time t of an animation of duration d (input data)
PoseAt(t, d) == IF t.d = 0 \/ 2 * t.n < d * t.d THEN 0 ELSE 1

\* originalDimensions.current: getBounds() when the skeleton was initialized
originalDimensions == FrameBounds(0)

framesToSample_noCap(d) == Max(CeilDiv(d, 6), 10)

\* framesToSample for a duration of d sixtieths of a second
framesToSample(d) == Min(Max(CeilDiv(d, 6), 10), 30)

\* the union of the sampled local bounds
MaxBoundsOf(d) ==
    LET n == framesToSample(d)
        S == {FrameBounds(PoseAt(R(i * d, n), d)) : i \in 0..n}
        minX == CHOOSE v \in {b.x : b \in S} : \A b \in S : v <= b.x
        minY == CHOOSE v \in {b.y : b \in S} : \A b \in S : v <= b.y
        maxRight == CHOOSE v \in {b.x + b.width : b \in S} :
                        \A b \in S : v >= b.x + b.width
        maxBottom == CHOOSE v \in {b.y + b.height : b \in S} :
                        \A b \in S : v >= b.y + b.height
    IN  [x |-> minX, y |-> minY, width |-> maxRight - minX, height |-> maxBottom - minY]

\* the skeleton while the sampling loop runs: identity transform, track time
\* at sample i
Sampling(s, i) ==
    [s EXCEPT !.sx = RInt(1), !.sy = RInt(1), !.px = RInt(0), !.py = RInt(0),
              !.trackTime = R(i * s.dur, framesToSample(s.dur))]

SamplerRestore_uniformScale(s, orig) ==
    [s EXCEPT !.trackTime = orig.trackTime,
              !.sx = orig.sx, !.sy = orig.sx,
              !.px = orig.px, !.py = orig.py]

\* "Restore original state": trackTime, scale.set(x, y), position.set(x, y)
SamplerRestore(s, orig) ==
    [s EXCEPT !.trackTime = orig.trackTime,
              !.sx = orig.sx, !.sy = orig.sy,
              !.px = orig.px, !.py = orig.py]

\* [sk |-> the skeleton after the call, bounds |-> the value returned]
calculateMaxAnimationBounds(s) ==
    IF ~s.hasTrack
    THEN [sk |-> s, bounds |-> originalDimensions]
    ELSE [sk |-> SamplerRestore(Sampling(s, framesToSample(s.dur)), s),
          bounds |-> MaxBoundsOf(s.dur)]

(***************************************************************************)
(* The bounds sampler step by step, for every animation whose poses have   *)
(* the local bounds FrameBounds(0) and FrameBounds(1)                      *)
(***************************************************************************)
\* originalTime, originalScaleX/Y, originalPositionX/Y
SavedPose(s) ==
    [trackTime |-> s.trackTime, sx |-> s.sx, sy |-> s.sy, px |-> s.px, py |-> s.py]

RMin(a, b) == IF RLeq(a, b) THEN a ELSE b

RMax(a, b) == IF RLeq(a, b) THEN b ELSE a

\* durations of the sampled animations, in sixtieths of a second
SampleDurations == {0, 4, 60, 61, 120, 180, 181, 400}

SampleTimes == {RInt(0), R(1, 2), RInt(3)}

\* entry of calculateMaxAnimationBounds: the early return, or the saved
\* locals and the reset of scale and position
SamplerCall ==
    /\ samp.phase = "idle"
    /\ spineAnimationRef # NoSpine
    /\ pre' = skel[spineAnimationRef]
    /\ IF ~skel[spineAnimationRef].hasTrack
       THEN /\ samp' = [samp EXCEPT !.phase = "done", !.out = originalDimensions]
            /\ UNCHANGED <<skel, touched>>
       ELSE /\ samp' = [samp EXCEPT !.phase = "loop",
                                    !.orig = SavedPose(skel[spineAnimationRef]),
                                    !.n = framesToSample(skel[spineAnimationRef].dur)]
            /\ skel' = [skel EXCEPT ![spineAnimationRef] =
                          [@ EXCEPT !.sx = RInt(1), !.sy = RInt(1),
                                    !.px = RInt(0), !.py = RInt(0)]]
            /\ touched' = TRUE
    /\ UNCHANGED <<spineAnimationRef, isPaused, isExporting, isPlaying>>
    /\ UNCHANGED <<pc, cbKind, spineCaptured, snap, cbResult, outcome, restored>>
    /\ UNCHANGED <<srcW, srcH, reqH, dims, pix, prog, ld>>
    /\ UNCHANGED <<appVars, exVars>>

\* one iteration of the sampling loop
SamplerStep ==
    /\ samp.phase = "loop"
    /\ samp.i <= samp.n
    /\ \E k \in 0..1 :
          LET s == skel[spineAnimationRef]
              time == RMul(R(samp.i, samp.n), RInt(s.dur))
              frameBounds == FrameBounds(k)
          IN  /\ skel' = [skel EXCEPT ![spineAnimationRef].trackTime = time]
              /\ samp' = [samp EXCEPT
                    !.i = @ + 1,
                    !.times = Append(@, time),
                    !.seen = @ \cup {frameBounds},
                    !.minX = RMin(@, RInt(frameBounds.x)),
                    !.minY = RMin(@, RInt(frameBounds.y)),
                    !.maxRight = RMax(@, RInt(frameBounds.x + frameBounds.width)),
                    !.maxBottom = RMax(@, RInt(frameBounds.y + frameBounds.height))]
    /\ UNCHANGED <<spineAnimationRef, isPaused, isExporting, isPlaying>>
    /\ UNCHANGED callVars
    /\ UNCHANGED <<srcW, srcH, reqH, dims, pix, prog, ld>>
    /\ UNCHANGED <<appVars, exVars>>

\* the loop has ended: maxBounds, the restore, the return
SamplerReturn ==
    /\ samp.phase = "loop"
    /\ samp.i > samp.n
    /\ samp' = [samp EXCEPT
          !.phase = "done",
          !.out = [x |-> samp.minX.n, y |-> samp.minY.n,
                   width |-> samp.maxRight.n - samp.minX.n,
                   height |-> samp.maxBottom.n - samp.minY.n]]
    /\ skel' = [skel EXCEPT ![spineAnimationRef] = SamplerRestore(@, samp.orig)]
    /\ UNCHANGED <<spineAnimationRef, isPaused, isExporting, isPlaying>>
    /\ UNCHANGED callVars
    /\ UNCHANGED <<srcW, srcH, reqH, dims, pix, prog, ld>>
    /\ UNCHANGED <<appVars, exVars>>

InitBounds ==
    /\ DimIdle
    /\ CallIdle
    /\ AppIdle
    /\ \E t \in BOOLEAN, d \in SampleDurations, x \in ViewScales, y \in ViewScales,
          p \in ViewPositions, time \in SampleTimes :
          skel = [i \in SkelIds |->
                    IF i = 1
                    THEN [NewSkel(t, d) EXCEPT !.sx = x, !.sy = y, !.px = p[1],
                                               !.py = p[2], !.trackTime = time]
                    ELSE Unborn]
    /\ spineAnimationRef = 1
    /\ isPaused = FALSE
    /\ isExporting = FALSE
    /\ isPlaying = TRUE

NextBounds ==
    \/ SamplerCall
    \/ SamplerStep
    \/ SamplerReturn

SpecBounds == InitBounds /\ [][NextBounds]_vars

(***************************************************************************)
(* Store: loadSpineAnimation, resetStore, setPremultipliedAlpha; the hook's *)
(* effect on store.spine                                                   *)
(***************************************************************************)
\* the three files have been dropped: setFiles, setUrls
UploadFiles ==
    /\ AtYield
    /\ ~urlsReady
    /\ ~isLoading
    /\ urlsReady' = TRUE
    /\ UNCHANGED <<spine, isLoading, loads, toast>>
    /\ UNCHANGED <<dimVars, hookVars, callVars, exVars>>

\* loadSpineAnimation up to its first await: set({isLoading: false, error: null})
LoadStarted(n) ==
    /\ isLoading' = FALSE
    /\ loads' = loads + n

\* the uploader's effect: all urls set and no spine yet
UploaderEffect ==
    /\ AtYield
    /\ urlsReady
    /\ spine = NoSpine
    /\ loads < MaxLoads
    /\ LoadStarted(1)
    /\ UNCHANGED <<spine, urlsReady, toast>>
    /\ UNCHANGED <<dimVars, hookVars, callVars, exVars>>

\* the premultiplied-alpha checkbox: the store setter starts a load and the
\* handler starts another one when the urls are set
setPremultipliedAlpha ==
    /\ AtYield
    /\ ~isLoading
    /\ urlsReady
    /\ loads + 2 <= MaxLoads
    /\ LoadStarted(2)
    /\ UNCHANGED <<spine, urlsReady, toast>>
    /\ UNCHANGED <<dimVars, hookVars, callVars, exVars>>

\* ids no object in use has
FreeIds == {i \in SkelIds : skel[i] = Unborn /\ i # spineAnimationRef /\ i # spineCaptured}

\* useEffect on store.spine: cleanup() of the previous skeleton (destroy, ref
\* = null), then initializeAnimation(spine): ref = spine, setAnimation(0, ...).
\* A destroyed skeleton that no export holds is garbage.
SpineEffect(sk, new) ==
    /\ spineAnimationRef' = new
    /\ skel' = [i \in SkelIds |->
                  IF i = new THEN [sk[i] EXCEPT !.trackTime = RInt(0)]
                  ELSE IF i = spineAnimationRef
                       THEN IF i = spineCaptured
                            THEN [sk[i] EXCEPT !.destroyed = TRUE]
                            ELSE Unborn
                  ELSE sk[i]]

\* a load in flight ends: set({spine, isLoading: false}) with a new Spine, or
\* set({error, isLoading: false})
LoadFinish ==
    /\ AtYield
    /\ loads > 0
    /\ loads' = loads - 1
    /\ isLoading' = FALSE
    /\ \/ \E id \in FreeIds, t \in BOOLEAN, d \in Durations :
             /\ ~t => d = 1
             /\ spine' = id
             /\ SpineEffect([skel EXCEPT ![id] = NewSkel(t, d)], id)
       \/ UNCHANGED <<spine, skel, spineAnimationRef>>
    /\ UNCHANGED <<urlsReady, toast>>
    /\ UNCHANGED <<isPaused, isExporting, isPlaying>>
    /\ UNCHANGED <<dimVars, callVars, exVars>>

\* handleReset: the button is disabled while isLoading
resetStore ==
    /\ AtYield
    /\ ~isLoading
    /\ spine # NoSpine \/ urlsReady
    /\ spine' = NoSpine
    /\ isLoading' = FALSE
    /\ urlsReady' = FALSE
    /\ SpineEffect(skel, NoSpine)
    /\ UNCHANGED <<loads, toast>>
    /\ UNCHANGED <<isPaused, isExporting, isPlaying>>
    /\ UNCHANGED <<dimVars, callVars, exVars>>

(***************************************************************************)
(* Control panel: togglePlayback, handleExport                             *)
(***************************************************************************)
\* disabled={isExporting || !isSpineLoaded}, isExporting being store.isLoading
ButtonsEnabled == spine # NoSpine /\ ~isLoading

togglePlayback ==
    /\ AtYield
    /\ ButtonsEnabled
    /\ skel' = [skel EXCEPT ![spine].timeScale = IF isPlaying THEN 0 ELSE 1]
    /\ isPlaying' = ~isPlaying
    /\ UNCHANGED <<spineAnimationRef, isPaused, isExporting>>
    /\ UNCHANGED <<dimVars, callVars, appVars, exVars>>

\* handleExport up to the call of the export function
handleExport ==
    /\ pc = "idle"
    /\ ButtonsEnabled
    /\ \E f \in Formats, h \in 0..MaxOptH :
          ex' = [NoEx EXCEPT !.fmt = ExportFn(f), !.optH = h,
                             !.format = IF ExportFn(f) = "video" THEN f ELSE "none"]
    /\ isLoading' = TRUE
    /\ toast' = "none"
    /\ pc' = "he_call"
    /\ UNCHANGED <<spine, urlsReady, loads>>
    /\ UNCHANGED <<cbKind, spineCaptured, snap, cbResult, outcome, restored, touched, pre>>
    /\ UNCHANGED <<ffmpegLoaded, fsFrames, fsOut>>
    /\ UNCHANGED <<dimVars, hookVars>>

\* handleExport with custom height enabled and no positive number entered
handleExportInvalidHeight ==
    /\ pc = "idle"
    /\ ButtonsEnabled
    /\ toast # "invalid"
    /\ toast' = "invalid"
    /\ UNCHANGED <<spine, isLoading, urlsReady, loads>>
    /\ UNCHANGED <<dimVars, hookVars, callVars, exVars>>

\* handleExport after the awaited export call: catch shows the failure
\* notification, finally clears the store flag
handleExportSettled ==
    /\ pc = "settled"
    /\ ex.fmt # "none"
    /\ toast' = IF outcome.kind \in {"threw", "rejected"} THEN "failed" ELSE toast
    /\ isLoading' = FALSE
    /\ ex' = NoEx
    /\ CallIdleNext
    /\ skel' = [i \in SkelIds |-> IF skel[i].destroyed THEN Unborn ELSE skel[i]]
    /\ UNCHANGED <<spineAnimationRef, isPaused, isExporting, isPlaying>>
    /\ UNCHANGED <<spine, urlsReady, loads>>
    /\ UNCHANGED <<ffmpegLoaded, fsFrames, fsOut>>
    /\ UNCHANGED dimVars

(***************************************************************************)
(* Still image: takeScreenshot                                             *)
(***************************************************************************)
\* a try block: control goes on when the step succeeded, to the handler
\* when it threw
Continue_ignoringFailure(ok, next, handler) == next

Continue(ok, next, handler) == IF ok THEN next ELSE handler

\* the skeleton when the sampling loop of calculateMaxAnimationBounds throws
BoundsInterrupted(s) == IF s.hasTrack THEN Sampling(s, 0) ELSE s

Posed_followsTime(s, b, scale, padX, padY) ==
    [s EXCEPT !.sx = scale, !.sy = scale,
              !.px = RAdd(RAdd(RMul(RInt(-b.x), scale), RInt(padX)), s.trackTime),
              !.py = RAdd(RMul(RInt(-b.y), scale), RInt(padY))]

\* the skeleton positioned for a frame: scale.set(scale), position.set(...)
Posed(s, b, scale, padX, padY) ==
    [s EXCEPT !.sx = scale, !.sy = scale,
              !.px = RAdd(RMul(RInt(-b.x), scale), RInt(padX)),
              !.py = RAdd(RMul(RInt(-b.y), scale), RInt(padY))]

FrameOf(s) == [time |-> s.trackTime, sx |-> s.sx, sy |-> s.sy, px |-> s.px, py |-> s.py]

\* takeScreenshot up to the callback: no skeleton resolves at once
takeScreenshot ==
    /\ pc = "he_call"
    /\ ex.fmt = "screenshot"
    /\ IF spineAnimationRef = NoSpine
       THEN /\ ex' = [ex EXCEPT !.noTarget = TRUE]
            /\ outcome' = [kind |-> "resolved", err |-> "none"]
            /\ pc' = "settled"
            /\ UNCHANGED <<spineCaptured, snap, restored, touched, pre>>
            /\ UNCHANGED hookVars
       ELSE /\ ex' = [ex EXCEPT !.noTarget = ~skel[spineAnimationRef].hasTrack]
            /\ GuardEnter(spineAnimationRef)
            /\ pc' = "ss_bounds"
            /\ UNCHANGED outcome
    /\ UNCHANGED <<cbKind, cbResult>>
    /\ UNCHANGED <<ffmpegLoaded, fsFrames, fsOut>>
    /\ UNCHANGED <<dimVars, appVars>>

\* what a step of an export leaves in ex.failStep
Failing(ok, step, before) == IF ok THEN before ELSE step

\* calculateMaxAnimationBounds and calculateExportDimensions
ScreenshotBounds ==
    /\ pc = "ss_bounds"
    /\ \E ok \in BOOLEAN :
          LET s0 == skel[spineCaptured]
              bp == calculateMaxAnimationBounds(s0)
              b == bp.bounds
              d == calculateExportDimensions(b.width, b.height, 0)
          IN  /\ skel' = [skel EXCEPT ![spineCaptured] =
                            IF ok THEN bp.sk ELSE BoundsInterrupted(s0)]
              /\ touched' = (~ok /\ s0.hasTrack)
              /\ ex' = [ex EXCEPT !.failStep = Failing(ok, "bounds", @),
                                  !.total = 1,
                                  !.bounds = IF ok THEN b ELSE @,
                                  !.width = IF ok THEN d.width ELSE @,
                                  !.height = IF ok THEN d.height ELSE @,
                                  !.scale = IF ok THEN R(d.height, b.height) ELSE @]
              /\ pc' = Continue(ok, "ss_renderer", "ss_end")
    /\ UNCHANGED <<spineAnimationRef, isPaused, isExporting, isPlaying>>
    /\ UNCHANGED <<cbKind, spineCaptured, snap, cbResult, outcome, restored, pre>>
    /\ UNCHANGED <<ffmpegLoaded, fsFrames, fsOut>>
    /\ UNCHANGED <<dimVars, appVars>>

\* new PIXI.Renderer, then position.set and scale.set
ScreenshotRenderer ==
    /\ pc = "ss_renderer"
    /\ \E ok \in BOOLEAN :
          /\ skel' = [skel EXCEPT ![spineCaptured] =
                        IF ok THEN Posed(@, ex.bounds, ex.scale, 0, 0) ELSE @]
          /\ touched' = (touched \/ ok)
          /\ ex' = [ex EXCEPT !.failStep = Failing(ok, "renderer", @),
                              !.renderer = IF ok THEN "live" ELSE @]
          /\ pc' = Continue(ok, "ss_render", "ss_end")
    /\ UNCHANGED <<spineAnimationRef, isPaused, isExporting, isPlaying>>
    /\ UNCHANGED <<cbKind, spineCaptured, snap, cbResult, outcome, restored, pre>>
    /\ UNCHANGED <<ffmpegLoaded, fsFrames, fsOut>>
    /\ UNCHANGED <<dimVars, appVars>>

\* renderer.render(spine) and the check of renderer.view
ScreenshotRender ==
    /\ pc = "ss_render"
    /\ \E ok \in BOOLEAN :
          /\ ex' = [ex EXCEPT !.failStep = Failing(ok, "render", @),
                              !.frames = IF ok THEN Append(@, FrameOf(skel[spineCaptured]))
                                         ELSE @]
          /\ pc' = Continue(ok, "ss_encode", "ss_end")
    /\ UNCHANGED hookVars
    /\ UNCHANGED <<cbKind, spineCaptured, snap, cbResult, outcome, restored, touched, pre>>
    /\ UNCHANGED <<ffmpegLoaded, fsFrames, fsOut>>
    /\ UNCHANGED <<dimVars, appVars>>

\* canvas.toDataURL("image/png")
ScreenshotEncode ==
    /\ pc = "ss_encode"
    /\ \E ok \in BOOLEAN :
          /\ ex' = [ex EXCEPT !.failStep = Failing(ok, "encode", @),
                              !.encoded = ok]
          /\ pc' = Continue(ok, "ss_download", "ss_end")
    /\ UNCHANGED hookVars
    /\ UNCHANGED <<cbKind, spineCaptured, snap, cbResult, outcome, restored, touched, pre>>
    /\ UNCHANGED <<ffmpegLoaded, fsFrames, fsOut>>
    /\ UNCHANGED <<dimVars, appVars>>

\* downloadFile(png, ...), renderer.destroy()
ScreenshotDownload ==
    /\ pc = "ss_download"
    /\ ex' = [ex EXCEPT !.downloads = @ + 1, !.renderer = "destroyed"]
    /\ pc' = "ss_end"
    /\ UNCHANGED hookVars
    /\ UNCHANGED <<cbKind, spineCaptured, snap, cbResult, outcome, restored, touched, pre>>
    /\ UNCHANGED <<ffmpegLoaded, fsFrames, fsOut>>
    /\ UNCHANGED <<dimVars, appVars>>

\* the end of the callback: the catch block only logs, the promise resolves
ScreenshotEnd ==
    /\ pc = "ss_end"
    /\ cbResult' = [kind |-> "resolved", err |-> "none"]
    /\ pc' = AfterCallback("resolved")
    /\ UNCHANGED hookVars
    /\ UNCHANGED <<cbKind, spineCaptured, snap, outcome, restored, touched, pre>>
    /\ UNCHANGED <<dimVars, appVars, exVars>>

(***************************************************************************)
(* GIF: exportToGif (synchronous)                                          *)
(***************************************************************************)
\* Math.ceil(width * (1 + paddingFactor)) with paddingFactor = 0.05
Padded(w) == CeilDiv(w * 105, 100)

\* Math.floor((padded - w) / 2)
Padding(w) == (Padded(w) - w) \div 2

GifTotalFrames_floor(d) == d \div 3

\* Math.ceil(duration * FPS) with FPS = 20, d in sixtieths of a second
GifTotalFrames(d) == CeilDiv(d, 3)

\* exportToGif up to the callback: no skeleton or no track returns at once
exportToGif ==
    /\ pc = "he_call"
    /\ ex.fmt = "gif"
    /\ IF spineAnimationRef = NoSpine \/ ~skel[spineAnimationRef].hasTrack
       THEN /\ ex' = [ex EXCEPT !.noTarget = TRUE]
            /\ outcome' = [kind |-> "returned", err |-> "none"]
            /\ pc' = "settled"
            /\ UNCHANGED <<spineCaptured, snap, restored, touched, pre>>
            /\ UNCHANGED hookVars
       ELSE /\ UNCHANGED ex
            /\ GuardEnter(spineAnimationRef)
            /\ pc' = "gif_bounds"
            /\ UNCHANGED outcome
    /\ UNCHANGED <<cbKind, cbResult>>
    /\ UNCHANGED <<ffmpegLoaded, fsFrames, fsOut>>
    /\ UNCHANGED <<dimVars, appVars>>

\* duration, totalFrames = ceil(duration * 20), bounds, dimensions, scale,
\* padding
GifBounds ==
    /\ pc = "gif_bounds"
    /\ \E ok \in BOOLEAN :
          LET s0 == skel[spineCaptured]
              bp == calculateMaxAnimationBounds(s0)
              b == bp.bounds
              d == calculateExportDimensions(b.width, b.height, ex.optH)
          IN  /\ skel' = [skel EXCEPT ![spineCaptured] =
                            IF ok THEN bp.sk ELSE BoundsInterrupted(s0)]
              /\ touched' = ~ok
              /\ ex' = [ex EXCEPT !.failStep = Failing(ok, "bounds", @),
                                  !.total = GifTotalFrames(s0.dur),
                                  !.bounds = IF ok THEN b ELSE @,
                                  !.width = IF ok THEN d.width ELSE @,
                                  !.height = IF ok THEN d.height ELSE @,
                                  !.scale = IF ok THEN R(d.height, b.height) ELSE @,
                                  !.padX = IF ok THEN Padding(d.width) ELSE @,
                                  !.padY = IF ok THEN Padding(d.height) ELSE @]
              /\ pc' = Continue(ok, "gif_renderer", "gif_finally")
    /\ UNCHANGED <<spineAnimationRef, isPaused, isExporting, isPlaying>>
    /\ UNCHANGED <<cbKind, spineCaptured, snap, cbResult, outcome, restored, pre>>
    /\ UNCHANGED <<ffmpegLoaded, fsFrames, fsOut>>
    /\ UNCHANGED <<dimVars, appVars>>

\* new PIXI.Renderer, the frame canvas, the encoder
GifRenderer ==
    /\ pc = "gif_renderer"
    /\ \E ok \in BOOLEAN :
          /\ ex' = [ex EXCEPT !.failStep = Failing(ok, "renderer", @),
                              !.renderer = IF ok THEN "live" ELSE @]
          /\ pc' = Continue(ok, "gif_frame", "gif_finally")
    /\ UNCHANGED hookVars
    /\ UNCHANGED <<cbKind, spineCaptured, snap, cbResult, outcome, restored, touched, pre>>
    /\ UNCHANGED <<ffmpegLoaded, fsFrames, fsOut>>
    /\ UNCHANGED <<dimVars, appVars>>

GifFrameTime_reversed(i, n, dur) == RMul(R(n - 1 - i, n - 1), RInt(dur))

\* the track time of frame i of n: (i / (n - 1)) * duration
GifFrameTime(i, n, dur) == RMul(R(i, n - 1), RInt(dur))

\* one iteration of the frame loop: pose, render, encoder.addFrame
GifFrame ==
    /\ pc = "gif_frame"
    /\ ex.i < ex.total
    /\ \E ok \in BOOLEAN :
          LET s0 == skel[spineCaptured]
              s1 == Posed([s0 EXCEPT !.trackTime = GifFrameTime(ex.i, ex.total, s0.dur)],
                          ex.bounds, ex.scale, ex.padX, ex.padY)
          IN  /\ skel' = [skel EXCEPT ![spineCaptured] = s1]
              /\ touched' = TRUE
              /\ ex' = [ex EXCEPT !.failStep = Failing(ok, "render", @),
                                  !.frames = IF ok THEN Append(@, FrameOf(s1)) ELSE @,
                                  !.sent = IF ok THEN Append(@, s1.trackTime) ELSE @,
                                  !.i = IF ok THEN @ + 1 ELSE @]
              /\ pc' = Continue(ok, "gif_frame", "gif_finally")
    /\ UNCHANGED <<spineAnimationRef, isPaused, isExporting, isPlaying>>
    /\ UNCHANGED <<cbKind, spineCaptured, snap, cbResult, outcome, restored, pre>>
    /\ UNCHANGED <<ffmpegLoaded, fsFrames, fsOut>>
    /\ UNCHANGED <<dimVars, appVars>>

\* encoder.finish() and encoder.out.getData()
GifFinish ==
    /\ pc = "gif_frame"
    /\ ex.i = ex.total
    /\ \E ok \in BOOLEAN :
          /\ ex' = [ex EXCEPT !.failStep = Failing(ok, "encode", @),
                              !.encoded = ok]
          /\ pc' = Continue(ok, "gif_download", "gif_finally")
    /\ UNCHANGED hookVars
    /\ UNCHANGED <<cbKind, spineCaptured, snap, cbResult, outcome, restored, touched, pre>>
    /\ UNCHANGED <<ffmpegLoaded, fsFrames, fsOut>>
    /\ UNCHANGED <<dimVars, appVars>>

\* downloadFile(url, ...), renderer.destroy()
GifDownload ==
    /\ pc = "gif_download"
    /\ ex' = [ex EXCEPT !.downloads = @ + 1, !.renderer = "destroyed"]
    /\ pc' = "gif_finally"
    /\ UNCHANGED hookVars
    /\ UNCHANGED <<cbKind, spineCaptured, snap, cbResult, outcome, restored, touched, pre>>
    /\ UNCHANGED <<ffmpegLoaded, fsFrames, fsOut>>
    /\ UNCHANGED <<dimVars, appVars>>

\* the catch block rethrows as "Failed to generate GIF"; the finally block
\* returns the skeleton to the stage
GifFinally ==
    /\ pc = "gif_finally"
    /\ cbResult' = IF ex.failStep = "none"
                   THEN [kind |-> "value", err |-> "none"]
                   ELSE [kind |-> "throw", err |-> "Failed to generate GIF"]
    /\ pc' = AfterCallback(cbResult'.kind)
    /\ UNCHANGED hookVars
    /\ UNCHANGED <<cbKind, spineCaptured, snap, outcome, restored, touched, pre>>
    /\ UNCHANGED <<dimVars, appVars, exVars>>

(***************************************************************************)
(* Video: exportToVideo (asynchronous)                                     *)
(***************************************************************************)
\* exportToVideo up to the callback: no skeleton or no track resolves at once
exportToVideo ==
    /\ pc = "he_call"
    /\ ex.fmt = "video"
    /\ IF spineAnimationRef = NoSpine \/ ~skel[spineAnimationRef].hasTrack
       THEN /\ ex' = [ex EXCEPT !.noTarget = TRUE]
            /\ outcome' = [kind |-> "resolved", err |-> "none"]
            /\ pc' = "settled"
            /\ UNCHANGED <<spineCaptured, snap, restored, touched, pre>>
            /\ UNCHANGED hookVars
       ELSE /\ UNCHANGED ex
            /\ GuardEnter(spineAnimationRef)
            /\ pc' = "vid_bounds"
            /\ UNCHANGED outcome
    /\ UNCHANGED <<cbKind, cbResult>>
    /\ UNCHANGED <<ffmpegLoaded, fsFrames, fsOut>>
    /\ UNCHANGED <<dimVars, appVars>>

EvenDim_identity(v) == v

\* Math.round(v / 2) * 2
EvenDim(v) == RoundDiv(v, 2) * 2

VideoFinally_outputOnly(n) == "vid_delout"

\* where the finally block starts: the frame files are deleted first
VideoFinally(n) == IF n > 0 THEN "vid_del" ELSE "vid_delout"

\* duration, totalFrames = floor(duration * 30), bounds, even dimensions,
\* scale, padding
VideoBounds ==
    /\ pc = "vid_bounds"
    /\ \E ok \in BOOLEAN :
          LET s0 == skel[spineCaptured]
              bp == calculateMaxAnimationBounds(s0)
              b == bp.bounds
              d == calculateExportDimensions(b.width, b.height, ex.optH)
              w == EvenDim(d.width)
              h == EvenDim(d.height)
          IN  /\ skel' = [skel EXCEPT ![spineCaptured] =
                            IF ok THEN bp.sk ELSE BoundsInterrupted(s0)]
              /\ touched' = ~ok
              /\ ex' = [ex EXCEPT !.failStep = Failing(ok, "bounds", @),
                                  !.total = s0.dur \div 2,
                                  !.bounds = IF ok THEN b ELSE @,
                                  !.width = IF ok THEN w ELSE @,
                                  !.height = IF ok THEN h ELSE @,
                                  !.scale = IF ok THEN R(h, b.height) ELSE @,
                                  !.padX = IF ok THEN Padding(w) ELSE @,
                                  !.padY = IF ok THEN Padding(h) ELSE @]
              /\ pc' = Continue(ok, "vid_renderer", VideoFinally(0))
    /\ UNCHANGED <<spineAnimationRef, isPaused, isExporting, isPlaying>>
    /\ UNCHANGED <<cbKind, spineCaptured, snap, cbResult, outcome, restored, pre>>
    /\ UNCHANGED <<ffmpegLoaded, fsFrames, fsOut>>
    /\ UNCHANGED <<dimVars, appVars>>

\* new PIXI.Renderer and the 2d context of the frame canvas
VideoRenderer ==
    /\ pc = "vid_renderer"
    /\ \E ok \in BOOLEAN, ctx \in BOOLEAN :
          /\ ok => ctx
          /\ ex' = [ex EXCEPT !.failStep = Failing(ok, "renderer", @),
                              !.renderer = IF ctx THEN "live" ELSE @]
          /\ pc' = Continue(ok, "vid_frame", VideoFinally(0))
    /\ UNCHANGED hookVars
    /\ UNCHANGED <<cbKind, spineCaptured, snap, cbResult, outcome, restored, touched, pre>>
    /\ UNCHANGED <<ffmpegLoaded, fsFrames, fsOut>>
    /\ UNCHANGED <<dimVars, appVars>>

\* Math.min(frameIndex * frameDuration, duration), frameDuration being
\* duration / totalFrames
VideoFrameTime(i, n, dur) ==
    LET t == RMul(RInt(i), R(dur, n))
    IN  IF RLeq(t, RInt(dur)) THEN t ELSE RInt(dur)

\* appRef.current.ticker.update(): the track time advances by delta * timeScale
Ticked(s, delta) == [s EXCEPT !.trackTime = RAdd(@, RInt(delta * s.timeScale))]

\* one iteration of the pre-render loop
VideoFrame ==
    /\ pc = "vid_frame"
    /\ ex.i < ex.total
    /\ \E ok \in BOOLEAN, delta \in 0..1 :
          LET s0 == skel[spineCaptured]
              s1 == Posed(Ticked([s0 EXCEPT !.trackTime =
                                     VideoFrameTime(ex.i, ex.total, s0.dur)], delta),
                          ex.bounds, ex.scale, ex.padX, ex.padY)
          IN  /\ delta = 1 => s0.timeScale = 1
              /\ skel' = [skel EXCEPT ![spineCaptured] = s1]
              /\ touched' = TRUE
              /\ ex' = [ex EXCEPT !.failStep = Failing(ok, "render", @),
                                  !.frames = IF ok THEN Append(@, FrameOf(s1)) ELSE @,
                                  !.i = IF ok THEN @ + 1 ELSE @]
              /\ pc' = Continue(ok, "vid_frame", VideoFinally(Len(ex.frames)))
    /\ UNCHANGED <<spineAnimationRef, isPaused, isExporting, isPlaying>>
    /\ UNCHANGED <<cbKind, spineCaptured, snap, cbResult, outcome, restored, pre>>
    /\ UNCHANGED <<ffmpegLoaded, fsFrames, fsOut>>
    /\ UNCHANGED <<dimVars, appVars>>

\* after ffmpeg is loaded: the frame files are written, then exec runs
AfterLoad(n) == IF n > 0 THEN "vid_write" ELSE "vid_exec"

\* all frames are rendered: await ffmpeg.load() unless it is loaded
VideoFramesDone ==
    /\ pc = "vid_frame"
    /\ ex.i = ex.total
    /\ pc' = IF ffmpegLoaded THEN AfterLoad(Len(ex.frames)) ELSE "vid_load"
    /\ UNCHANGED hookVars
    /\ UNCHANGED <<cbKind, spineCaptured, snap, cbResult, outcome, restored, touched, pre>>
    /\ UNCHANGED <<dimVars, appVars, exVars>>

\* ffmpeg.load() settles
VideoLoad ==
    /\ pc = "vid_load"
    /\ \E ok \in BOOLEAN :
          /\ ffmpegLoaded' = ok
          /\ ex' = [ex EXCEPT !.failStep = Failing(ok, "load", @)]
          /\ pc' = Continue(ok, AfterLoad(Len(ex.frames)), VideoFinally(Len(ex.frames)))
    /\ UNCHANGED hookVars
    /\ UNCHANGED <<cbKind, spineCaptured, snap, cbResult, outcome, restored, touched, pre>>
    /\ UNCHANGED <<fsFrames, fsOut>>
    /\ UNCHANGED <<dimVars, appVars>>

\* one frame file is written: canvas.toBlob, blob.arrayBuffer, ffmpeg.writeFile;
\* a write that fails may leave the file behind
VideoWrite ==
    /\ pc = "vid_write"
    /\ \E ok \in BOOLEAN, stored \in BOOLEAN :
          /\ ok => stored
          /\ fsFrames' = IF stored THEN fsFrames \cup {ex.written} ELSE fsFrames
          /\ ex' = [ex EXCEPT !.failStep = Failing(ok, "write", @),
                              !.sent = IF ok THEN Append(@, ex.frames[ex.written + 1].time)
                                       ELSE @,
                              !.written = IF ok THEN @ + 1 ELSE @]
          /\ pc' = Continue(ok,
                            IF ex.written + 1 < Len(ex.frames) THEN "vid_write" ELSE "vid_exec",
                            VideoFinally(Len(ex.frames)))
    /\ UNCHANGED hookVars
    /\ UNCHANGED <<cbKind, spineCaptured, snap, cbResult, outcome, restored, touched, pre>>
    /\ UNCHANGED <<ffmpegLoaded, fsOut>>
    /\ UNCHANGED <<dimVars, appVars>>

\* "-c:v" of the transcoder's arguments
VideoCodec(format) == IF format = "mp4" THEN "libx264" ELSE "libvpx-vp9"

\* "-pix_fmt" of the transcoder's arguments
PixelFormat(format) == IF format = "mp4" THEN "yuv420p" ELSE "yuva420p"

\* the arguments are built and ffmpeg.exec(args) settles; alpha is whether the
\* transcoder of this environment can encode the alpha-capable format
VideoExec ==
    /\ pc = "vid_exec"
    /\ \E ok \in BOOLEAN, out \in BOOLEAN, alpha \in BOOLEAN :
          /\ ok => out
          /\ fsOut' = (fsOut \/ out)
          /\ ex' = [ex EXCEPT !.failStep = Failing(ok, "encode", @),
                              !.codec = VideoCodec(ex.format),
                              !.pixFmt = PixelFormat(ex.format),
                              !.alphaSupported = alpha,
                              !.encoded = ok]
          /\ pc' = Continue(ok, "vid_read", VideoFinally(Len(ex.frames)))
    /\ UNCHANGED hookVars
    /\ UNCHANGED <<cbKind, spineCaptured, snap, cbResult, outcome, restored, touched, pre>>
    /\ UNCHANGED <<ffmpegLoaded, fsFrames>>
    /\ UNCHANGED <<dimVars, appVars>>

\* ffmpeg.readFile(outputFile) settles; on success the blob is downloaded
VideoRead ==
    /\ pc = "vid_read"
    /\ \E ok \in BOOLEAN :
          /\ ex' = [ex EXCEPT !.failStep = Failing(ok, "read", @),
                              !.downloads =
                                  IF Continue(ok, "download", "catch") = "download"
                                  THEN @ + 1 ELSE @]
          /\ pc' = VideoFinally(Len(ex.frames))
    /\ UNCHANGED hookVars
    /\ UNCHANGED <<cbKind, spineCaptured, snap, cbResult, outcome, restored, touched, pre>>
    /\ UNCHANGED <<ffmpegLoaded, fsFrames, fsOut>>
    /\ UNCHANGED <<dimVars, appVars>>

\* finally: ffmpeg.deleteFile of one frame file settles; deleting a file that
\* was never written fails and is logged
VideoDelete ==
    /\ pc = "vid_del"
    /\ fsFrames' = fsFrames \ {ex.del}
    /\ ex' = [ex EXCEPT !.del = @ + 1,
                        !.delFailed = IF ex.del \in fsFrames THEN @ ELSE @ + 1]
    /\ pc' = IF ex.del + 1 < Len(ex.frames) THEN "vid_del" ELSE "vid_delout"
    /\ UNCHANGED hookVars
    /\ UNCHANGED <<cbKind, spineCaptured, snap, cbResult, outcome, restored, touched, pre>>
    /\ UNCHANGED <<ffmpegLoaded, fsOut>>
    /\ UNCHANGED <<dimVars, appVars>>

\* finally: ffmpeg.deleteFile(output) settles, the renderer is destroyed, the
\* skeleton returns to the stage; the catch block has only logged, so the
\* callback's promise resolves
VideoDeleteOutput ==
    /\ pc = "vid_delout"
    /\ fsOut' = FALSE
    /\ ex' = [ex EXCEPT !.renderer = IF @ = "live" THEN "destroyed" ELSE @]
    /\ cbResult' = [kind |-> "resolved", err |-> "none"]
    /\ pc' = AfterCallback("resolved")
    /\ UNCHANGED hookVars
    /\ UNCHANGED <<cbKind, spineCaptured, snap, outcome, restored, touched, pre>>
    /\ UNCHANGED <<ffmpegLoaded, fsFrames>>
    /\ UNCHANGED <<dimVars, appVars>>

(***************************************************************************)
(* The application                                                         *)
(***************************************************************************)
Init ==
    /\ DimIdle
    /\ CallIdle
    /\ AppIdle
    /\ skel = [i \in SkelIds |-> Unborn]
    /\ spineAnimationRef = NoSpine
    /\ isPaused = FALSE
    /\ isExporting = FALSE
    /\ isPlaying = TRUE

Next ==
    \/ UploadFiles
    \/ UploaderEffect
    \/ setPremultipliedAlpha
    \/ LoadFinish
    \/ resetStore
    \/ togglePlayback
    \/ handleExport
    \/ handleExportInvalidHeight
    \/ takeScreenshot
    \/ ScreenshotBounds
    \/ ScreenshotRenderer
    \/ ScreenshotRender
    \/ ScreenshotEncode
    \/ ScreenshotDownload
    \/ ScreenshotEnd
    \/ exportToGif
    \/ GifBounds
    \/ GifRenderer
    \/ GifFrame
    \/ GifFinish
    \/ GifDownload
    \/ GifFinally
    \/ exportToVideo
    \/ VideoBounds
    \/ VideoRenderer
    \/ VideoFrame
    \/ VideoFramesDone
    \/ VideoLoad
    \/ VideoWrite
    \/ VideoExec
    \/ VideoRead
    \/ VideoDelete
    \/ VideoDeleteOutput
    \/ GuardCleanup
    \/ GuardDeliver
    \/ handleExportSettled

Spec == Init /\ [][Next]_vars

(***************************************************************************)
(* The three exports from the control panel on one loaded skeleton, with   *)
(* animations long enough for many frames                                  *)
(***************************************************************************)
ExportDurations == {1, 4, 120}

InitExport ==
    /\ DimIdle
    /\ CallIdle
    /\ \E t \in BOOLEAN, d \in ExportDurations :
          /\ ~t => d = 1
          /\ skel = [i \in SkelIds |-> IF i = 1 THEN NewSkel(t, d) ELSE Unborn]
    /\ spineAnimationRef = 1
    /\ isPaused = FALSE
    /\ isExporting = FALSE
    /\ isPlaying = TRUE
    /\ spine = 1
    /\ isLoading = FALSE
    /\ urlsReady = TRUE
    /\ loads = 1
    /\ toast = "none"
    /\ ex = NoEx
    /\ ffmpegLoaded = FALSE
    /\ fsFrames = {}
    /\ fsOut = FALSE

NextExport ==
    \/ handleExport
    \/ takeScreenshot
    \/ ScreenshotBounds
    \/ ScreenshotRenderer
    \/ ScreenshotRender
    \/ ScreenshotEncode
    \/ ScreenshotDownload
    \/ ScreenshotEnd
    \/ exportToGif
    \/ GifBounds
    \/ GifRenderer
    \/ GifFrame
    \/ GifFinish
    \/ GifDownload
    \/ GifFinally
    \/ exportToVideo
    \/ VideoBounds
    \/ VideoRenderer
    \/ VideoFrame
    \/ VideoFramesDone
    \/ VideoLoad
    \/ VideoWrite
    \/ VideoExec
    \/ VideoRead
    \/ VideoDelete
    \/ VideoDeleteOutput
    \/ GuardCleanup
    \/ GuardDeliver
    \/ handleExportSettled

SpecExport == InitExport /\ [][NextExport]_vars

(***************************************************************************)
(* The guard entered from every playback state the controller's pause,     *)
(* play and reset and the panel's toggle can produce                       *)
(***************************************************************************)
\* animationControl("reset"): the first animation is set again from time 0
resetAnimation ==
    /\ AtYield
    /\ spineAnimationRef # NoSpine
    /\ skel' = [skel EXCEPT ![spineAnimationRef].timeScale = 1,
                            ![spineAnimationRef].trackTime =
                                IF skel[spineAnimationRef].hasTrack THEN RInt(0) ELSE @]
    /\ isPaused' = FALSE
    /\ UNCHANGED <<spineAnimationRef, isExporting, isPlaying>>
    /\ UNCHANGED callVars
    /\ UNCHANGED <<dimVars, appVars, exVars>>

NextPlayback ==
    \/ pauseAnimation
    \/ resumeAnimation
    \/ resetAnimation
    \/ togglePlayback
    \/ Tick
    \/ CallGuard
    \/ CbEndSync
    \/ CbSettle
    \/ GuardCleanup
    \/ GuardDeliver
    \/ CallerContinues

SpecPlayback == InitGuard /\ [][NextPlayback]_vars

(***************************************************************************)
(* The still image taken while the animation plays or is paused by the     *)
(* panel's toggle, at any track time                                       *)
(***************************************************************************)
\* the Screenshot button of the control panel
ScreenshotClick ==
    /\ handleExport
    /\ ex'.fmt = "screenshot"
    /\ ex'.optH = 0

NextStill ==
    \/ Tick
    \/ togglePlayback
    \/ ScreenshotClick
    \/ takeScreenshot
    \/ ScreenshotBounds
    \/ ScreenshotRenderer
    \/ ScreenshotRender
    \/ ScreenshotEncode
    \/ ScreenshotDownload
    \/ ScreenshotEnd
    \/ GuardCleanup
    \/ GuardDeliver
    \/ handleExportSettled

SpecStill == InitGuard /\ [][NextStill]_vars

(***************************************************************************)
(* One pixel of a GIF frame, from the renderer to the encoder              *)
(***************************************************************************)
\* channel values of the rendered pixels (input data)
Channels == {0, 20, 29, 30, 50, 240, 255}

Alphas == {0, 255}

\* frameCtx.clearRect, then frameCtx.drawImage(renderer.view, ...) onto the
\* cleared canvas: an opaque pixel is copied, a transparent one stays clear
DrawImage(p) == IF p.a = 0 THEN Transparent ELSE p

\* what encoder.addFrame(frameCtx) reads: the pixels of the frame canvas
AddFrameInput(canvas) == canvas

InitPixel ==
    /\ srcW = 1
    /\ srcH = 1
    /\ reqH = 0
    /\ dims = NoDims
    /\ samp = NoSamp
    /\ \E r \in Channels, g \in Channels, b \in Channels, a \in Alphas :
          pix = [NoPix EXCEPT !.src = [r |-> r, g |-> g, b |-> b, a |-> a]]
    /\ prog = NoProg
    /\ ld = NoLd
    /\ CallIdle
    /\ AppIdle
    /\ skel = [i \in SkelIds |-> Unborn]
    /\ spineAnimationRef = NoSpine
    /\ isPaused = FALSE
    /\ isExporting = FALSE
    /\ isPlaying = TRUE

\* renderer.render(exportContainer), clearRect and drawImage of one iteration
PixelDraw ==
    /\ pix.step = "idle"
    /\ pix' = [pix EXCEPT !.canvas = DrawImage(pix.src), !.step = "drawn"]
    /\ UNCHANGED <<srcW, srcH, reqH, dims, samp, prog, ld>>
    /\ UNCHANGED <<hookVars, callVars, appVars, exVars>>

\* encoder.addFrame(frameCtx) of the same iteration
PixelAddFrame ==
    /\ pix.step = "drawn"
    /\ pix' = [pix EXCEPT !.out = AddFrameInput(pix.canvas), !.step = "handed"]
    /\ UNCHANGED <<srcW, srcH, reqH, dims, samp, prog, ld>>
    /\ UNCHANGED <<hookVars, callVars, appVars, exVars>>

NextPixel ==
    \/ PixelDraw
    \/ PixelAddFrame

SpecPixel == InitPixel /\ [][NextPixel]_vars

(***************************************************************************)
(* Progress events of the module-level transcoder over video exports in a  *)
(* row                                                                     *)
(***************************************************************************)
\* the listeners of prog.listeners that call a supplied callback
Calling(ls) == {i \in 1..Len(ls) : ls[i].cb}

\* export k reaches ffmpeg.on("progress", ...) and starts ffmpeg.exec(args);
\* cb is whether its caller supplied onExportPercentageUpdate
ProgressExec ==
    /\ prog.phase = "idle"
    /\ prog.k < MaxExports
    /\ \E cb \in BOOLEAN :
          prog' = [prog EXCEPT !.k = @ + 1,
                               !.phase = "exec",
                               !.listeners = Append(@, [id |-> prog.k + 1, cb |-> cb]),
                               !.ev = 0,
                               !.own = 0]
    /\ UNCHANGED <<srcW, srcH, reqH, dims, samp, pix, ld>>
    /\ UNCHANGED <<hookVars, callVars, appVars, exVars>>

\* the transcoder emits a progress event: every registered listener runs
ProgressEvent ==
    /\ prog.phase = "exec"
    /\ prog.ev < MaxEvents
    /\ LET ls == prog.listeners
           called == Calling(ls)
       IN  prog' = [prog EXCEPT
                      !.ev = @ + 1,
                      !.own = @ + Cardinality({i \in called : ls[i].id = prog.k}),
                      !.stale = @ \cup {ls[i].id : i \in {j \in called : ls[j].id < prog.k}}]
    /\ UNCHANGED <<srcW, srcH, reqH, dims, samp, pix, ld>>
    /\ UNCHANGED <<hookVars, callVars, appVars, exVars>>

\* ffmpeg.exec settles and the export goes on to its end
ProgressSettle ==
    /\ prog.phase = "exec"
    /\ prog' = [prog EXCEPT !.phase = "idle"]
    /\ UNCHANGED <<srcW, srcH, reqH, dims, samp, pix, ld>>
    /\ UNCHANGED <<hookVars, callVars, appVars, exVars>>

InitProgress ==
    /\ DimIdle
    /\ CallIdle
    /\ AppIdle
    /\ skel = [i \in SkelIds |-> Unborn]
    /\ spineAnimationRef = NoSpine
    /\ isPaused = FALSE
    /\ isExporting = FALSE
    /\ isPlaying = TRUE

NextProgress ==
    \/ ProgressExec
    \/ ProgressEvent
    \/ ProgressSettle

SpecProgress == InitProgress /\ [][NextProgress]_vars

(***************************************************************************)
(* Skeleton loads in flight at once: each loadSpineAnimation call reads    *)
(* the store when it starts and writes the spine when it ends              *)
(***************************************************************************)
\* loadSpineAnimation up to its first await: get() is read
StartLoad(l) ==
    [l EXCEPT !.issued = @ + 1,
              !.inflight = @ \cup {[id |-> l.issued + 1, pma |-> l.pma]}]

\* the uploader's effect: urls are set and there is no spine
LoadUploaded ==
    /\ ld.spine = NoReq
    /\ ld.issued < MaxRequests
    /\ ld' = StartLoad(ld)
    /\ UNCHANGED <<srcW, srcH, reqH, dims, samp, pix, prog>>
    /\ UNCHANGED <<hookVars, callVars, appVars, exVars>>

\* the checkbox: the store's setPremultipliedAlpha sets the value and starts
\* a load, then the handler starts another
CheckboxToggle ==
    /\ ld.issued + 2 <= MaxRequests
    /\ ld' = StartLoad(StartLoad([ld EXCEPT !.pma = ~@]))
    /\ UNCHANGED <<srcW, srcH, reqH, dims, samp, pix, prog>>
    /\ UNCHANGED <<hookVars, callVars, appVars, exVars>>

\* a load in flight ends: set({ spine, isLoading: false })
LoadCompletes ==
    /\ \E q \in ld.inflight :
          ld' = [ld EXCEPT !.inflight = @ \ {q}, !.spine = q]
    /\ UNCHANGED <<srcW, srcH, reqH, dims, samp, pix, prog>>
    /\ UNCHANGED <<hookVars, callVars, appVars, exVars>>

NextLoad ==
    \/ LoadUploaded
    \/ CheckboxToggle
    \/ LoadCompletes

SpecLoad == InitProgress /\ [][NextLoad]_vars

(***************************************************************************)
(* Dimension planner applied to every input                                *)
(***************************************************************************)
InitDim ==
    /\ srcW \in 1..MaxSrc
    /\ srcH \in 1..MaxSrc
    /\ reqH \in 0..MaxReq
    /\ dims = NoDims
    /\ samp = NoSamp
    /\ pix = NoPix
    /\ prog = NoProg
    /\ ld = NoLd
    /\ CallIdle
    /\ AppIdle
    /\ skel = [i \in SkelIds |-> Unborn]
    /\ spineAnimationRef = NoSpine
    /\ isPaused = FALSE
    /\ isExporting = FALSE
    /\ isPlaying = TRUE

PlanDimensions ==
    /\ dims = NoDims
    /\ dims' = calculateExportDimensions(srcW, srcH, reqH)
    /\ UNCHANGED <<srcW, srcH, reqH, samp, pix, prog, ld>>
    /\ UNCHANGED <<hookVars, callVars, appVars, exVars>>

NextDim == PlanDimensions

SpecDim == InitDim /\ [][NextDim]_vars

(***************************************************************************)
(* C1: for every callback (synchronous return or throw, promise resolved   *)
(* or rejected) and every way it writes the skeleton, scale, position and  *)
(* track time after the guarded call has settled equal their values at     *)
(* guard entry.                                                            *)
(***************************************************************************)
C1_TransformRestored ==
    pc = "settled" =>
        LET s == skel[spineCaptured]
        IN  /\ s.sx = pre.sx
            /\ s.sy = pre.sy
            /\ s.px = pre.px
            /\ s.py = pre.py
            /\ s.trackTime = pre.trackTime

C1_Witness ==
    /\ pc = "settled"
    /\ outcome.kind = "rejected"
    /\ touched
    /\ pre.px = RInt(4)
    /\ pre.trackTime = RInt(1)

(***************************************************************************)
(* C2: after an export call has settled, the skeleton's time scale equals  *)
(* its value just before the call, whatever the playback state was then,   *)
(* a pause through the control panel's play/pause toggle included.         *)
(***************************************************************************)
C2_TimeScaleRestored ==
    (pc = "settled" /\ spineCaptured # NoSpine) =>
        skel[spineCaptured].timeScale = pre.timeScale

(***************************************************************************)
(* C3: isExporting is false once a guarded call has settled, however the   *)
(* callback ended, and it is true only between guard entry and settlement. *)
(***************************************************************************)
C3_FlagCleared ==
    /\ pc \in {"settled", "idle"} => ~isExporting
    /\ isExporting => pc \in {"cb", "cb_pending", "cleanup"}

C3_Witness ==
    /\ pc = "settled"
    /\ outcome.kind = "threw"
    /\ ~isExporting

(***************************************************************************)
(* C4: when the callback throws or its promise rejects, the caller gets    *)
(* that same error, and only after cleanup() has run.                      *)
(***************************************************************************)
C4_ErrorAfterRestore ==
    /\ (cbResult.kind \in {"throw", "rejected"} /\ pc = "settled") =>
          /\ outcome.kind = Delivered(cbResult.kind)
          /\ outcome.err = cbResult.err
          /\ outcome.err \in Errors
    /\ outcome.kind \in {"threw", "rejected"} => restored

C4_Witness ==
    /\ pc = "settled"
    /\ outcome = [kind |-> "rejected", err |-> "E2"]
    /\ restored

(***************************************************************************)
(* C5: a failure during bounds computation, rendering, encoding or         *)
(* finalizing of any of the three exports reaches the caller: the export   *)
(* call throws or its promise rejects.                                     *)
(***************************************************************************)
C5_FailureSurfaced ==
    (pc = "settled" /\ ex.failStep # "none") =>
        outcome.kind \in {"threw", "rejected"}

C7_NoTargetNoOp ==
    ex.noTarget =>
        /\ ~isExporting
        /\ ~touched
        /\ ex.renderer = "none"
        /\ ex.downloads = 0

(***************************************************************************)
(* C8: from the start of an export from the control panel until it has     *)
(* settled, the flag that disables the export buttons stays true, under    *)
(* every interleaving with the store's actions.                            *)
(***************************************************************************)
C8_FlagHeld ==
    ex.fmt # "none" => isLoading

(***************************************************************************)
(* C9: with no requested height the source size is returned unchanged;     *)
(* with a requested height in [1, 2000] the returned height is             *)
(* min(requestedHeight, 1000), for every source width and height > 0.      *)
(***************************************************************************)
C9_HeightPlan ==
    dims # NoDims =>
        IF reqH = 0
        THEN dims = [width |-> srcW, height |-> srcH]
        ELSE dims.height = (IF reqH < 1000 THEN reqH ELSE 1000)

C9_Witness ==
    /\ dims # NoDims
    /\ reqH > 1000
    /\ dims.height = 1000

(***************************************************************************)
(* C10: for integer source width, height > 0 and requested height in       *)
(* [1, 2000] the returned width and height are both positive.              *)
(***************************************************************************)
C10_PositiveDims ==
    (dims # NoDims /\ reqH >= 1) => (dims.width > 0 /\ dims.height > 0)

(***************************************************************************)
(* C11: with a requested height, an even source width and an odd rounded   *)
(* width, the returned width is the rounded width minus 1, or plus 1 when  *)
(* minus 1 would reach the boundary 0; with an even source width the       *)
(* returned width is always even.                                          *)
(***************************************************************************)
C11_ParityNudge ==
    (dims # NoDims /\ reqH >= 1 /\ srcW % 2 = 0) =>
        LET rounded == RoundDiv(Min(reqH, MAX_GIF_HEIGHT) * srcW, srcH)
        IN  /\ dims.width % 2 = 0
            /\ rounded % 2 # 0 =>
                  dims.width = (IF rounded - 1 >= 1 THEN rounded - 1 ELSE rounded + 1)

(***************************************************************************)
(* C12: with a requested height in [1, 2000] the returned width differs    *)
(* from the exact width outputHeight * sourceWidth / sourceHeight by at     *)
(* most 1 pixel.                                                           *)
(***************************************************************************)
C12_WidthWithinOne ==
    (dims # NoDims /\ reqH >= 1) =>
        Abs(dims.width * srcH - Min(reqH, MAX_GIF_HEIGHT) * srcW) <= srcH

\* C12 as the code has it: the returned width differs from the exact width
\* by at most 1.5 pixel, 0.5 from rounding and 1 from the parity nudge.
C12_WidthWithinOneAndHalf ==
    (dims # NoDims /\ reqH >= 1) =>
        2 * Abs(dims.width * srcH - Min(reqH, MAX_GIF_HEIGHT) * srcW) <= 3 * srcH

C12_Witness ==
    /\ dims # NoDims
    /\ reqH >= 1
    /\ srcW % 2 = 0
    /\ 2 * Abs(dims.width * srcH - Min(reqH, MAX_GIF_HEIGHT) * srcW) = 3 * srcH

C14_SamplerRestores ==
    samp.phase = "done" =>
        /\ skel[spineAnimationRef] = pre
        /\ ~pre.hasTrack => (~touched /\ samp.out = originalDimensions)

C14_Witness ==
    /\ samp.phase = "done"
    /\ touched
    /\ pre.sx # pre.sy
    /\ pre.px = RInt(4)
    /\ pre.trackTime = R(1, 2)

(***************************************************************************)
(* C15: a GIF export whose encoder finished has handed it exactly          *)
(* ceil(d * 20) frames for an animation of d seconds (40 for 2 seconds),   *)
(* one addFrame for each iteration of the loop, all of them before finish. *)
(***************************************************************************)
C15_GifFrameCount ==
    ex.fmt = "gif" =>
        /\ Len(ex.sent) = ex.i
        /\ ex.encoded =>
              Len(ex.sent) = CeilDiv(skel[spineCaptured].dur * 20, 60)

C15_Witness ==
    /\ pc = "settled"
    /\ ex.fmt = "gif"
    /\ ex.encoded
    /\ skel[spineCaptured].dur = 120
    /\ Len(ex.sent) = 40

(***************************************************************************)
(* C16: in a GIF or video export every frame is rendered with the scale    *)
(* and the offset (-bounds.x * scale + paddingX, -bounds.y * scale +       *)
(* paddingY) that were computed before the frame loop; no two frames of    *)
(* one export differ in scale or offset.                                   *)
(***************************************************************************)
C16_SameScaleAndOffset ==
    \A k \in 1..Len(ex.frames) :
        LET f == ex.frames[k]
            offX == RAdd(RMul(RInt(-ex.bounds.x), ex.scale), RInt(ex.padX))
            offY == RAdd(RMul(RInt(-ex.bounds.y), ex.scale), RInt(ex.padY))
        IN  /\ f.sx = ex.scale
            /\ f.sy = ex.scale
            /\ RLeq(f.px, offX) /\ RLeq(offX, f.px)
            /\ RLeq(f.py, offY) /\ RLeq(offY, f.py)
            /\ f.sx = ex.frames[1].sx /\ f.sy = ex.frames[1].sy
            /\ f.px = ex.frames[1].px /\ f.py = ex.frames[1].py

C16_Witness ==
    /\ ex.fmt = "video"
    /\ Len(ex.frames) = 60
    /\ ex.frames[60].time # ex.frames[1].time
    /\ ex.optH = 1
    /\ ex.bounds.x = -3
    /\ RLeq(ex.scale, R(1, 3)) /\ RLeq(R(1, 3), ex.scale)

(***************************************************************************)
(* C17: in a GIF or video export the track time of a frame is strictly     *)
(* less than that of the next frame, and the encoder (addFrame, or the     *)
(* numbered frame files) receives the frames in index order, none skipped  *)
(* and none repeated.                                                      *)
(***************************************************************************)
C17_FramesInTimeOrder ==
    /\ \A k \in 1..(Len(ex.frames) - 1) :
          /\ RLeq(ex.frames[k].time, ex.frames[k + 1].time)
          /\ ~RLeq(ex.frames[k + 1].time, ex.frames[k].time)
    /\ Len(ex.sent) <= Len(ex.frames)
    /\ \A k \in 1..Len(ex.sent) : ex.sent[k] = ex.frames[k].time
    /\ ex.fmt = "video" => Len(ex.sent) = ex.written

C17_Witness ==
    /\ ex.fmt = "gif"
    /\ ex.encoded
    /\ Len(ex.sent) = 40
    /\ ex.sent[40] = RInt(120)

(***************************************************************************)
(* C18: in every video export, with or without a requested height, the     *)
(* width and the height of the frame canvas, which are the ones passed to  *)
(* the transcoder, are even.                                               *)
(***************************************************************************)
C18_EvenVideoSize ==
    ex.fmt = "video" => (ex.width % 2 = 0 /\ ex.height % 2 = 0)

C18_Witness ==
    /\ ex.fmt = "video"
    /\ ex.optH = 0
    /\ ex.encoded
    /\ ex.width > 0
    /\ ex.height > 0

(***************************************************************************)
(* C19: an mp4 export passes H.264 with yuv420p, never an alpha-preserving *)
(* pixel format; a webm export passes the alpha-capable pixel format when  *)
(* the environment supports it and a format without alpha otherwise.       *)
(***************************************************************************)
C19_PixelFormat ==
    ex.codec # "none" =>
        /\ ex.format = "mp4" => (ex.codec = "libx264" /\ ex.pixFmt = "yuv420p")
        /\ ex.format = "webm" => (ex.pixFmt = "yuva420p" <=> ex.alphaSupported)

(***************************************************************************)
(* C20: when exportToVideo has settled, after a success or a failure of    *)
(* any step, no frame file and no output file is left in the transcoder's  *)
(* storage; a deletion that fails does not stop the deletions after it and *)
(* the export settles as it would have without it.                         *)
(***************************************************************************)
C20_NoFilesLeft ==
    (pc = "settled" /\ ex.fmt = "video" /\ ~ex.noTarget) =>
        /\ fsFrames = {}
        /\ ~fsOut
        /\ ex.del = Len(ex.frames)
        /\ outcome.kind = "resolved"

C20_Witness ==
    /\ pc = "settled"
    /\ ex.fmt = "video"
    /\ ex.failStep = "write"
    /\ ex.written = 1
    /\ Len(ex.frames) = 2
    /\ ex.delFailed > 0

(***************************************************************************)
(* C21: when an export has settled, the offscreen renderer it created, if  *)
(* any, has been destroyed; this holds after a success and after a failure *)
(* of any step.                                                            *)
(***************************************************************************)
C21_RendererDestroyed ==
    pc = "settled" => ex.renderer # "live"

(***************************************************************************)
(* C22: a still-image export started at track time t renders exactly one   *)
(* frame, at track time t; after the call the track time is t and the time *)
(* scale is the one before the call.                                       *)
(***************************************************************************)
C22_StillAtCurrentTime ==
    (ex.fmt = "screenshot" /\ ~ex.noTarget /\ spineCaptured # NoSpine) =>
        /\ Len(ex.frames) <= 1
        /\ ex.downloads = 1 => Len(ex.frames) = 1
        /\ \A k \in 1..Len(ex.frames) : ex.frames[k].time = pre.trackTime
        /\ pc = "settled" =>
              /\ skel[spineCaptured].trackTime = pre.trackTime
              /\ skel[spineCaptured].timeScale = pre.timeScale

(***************************************************************************)
(* C23: in a GIF export no frame is handed to the encoder before the last  *)
(* frame of the export has been rendered.                                  *)
(***************************************************************************)
C23_RenderAllThenEncode ==
    (ex.fmt = "gif" /\ Len(ex.sent) > 0) => Len(ex.frames) = ex.total

(***************************************************************************)
(* C24: a pixel of a GIF frame that is exactly the chroma key colour       *)
(* reaches the encoder with alpha 0, and a near-black pixel (luminance     *)
(* below 40, red and blue below 30) that was visible reaches it with alpha *)
(* above 0.                                                                *)
(***************************************************************************)
C24_ChromaKeyRemoved ==
    pix.step = "handed" =>
        LET p == pix.src
            key == p.r = 0 /\ p.g = 255 /\ p.b = 0
            dark == /\ 299 * p.r + 587 * p.g + 114 * p.b < 40 * 1000
                    /\ p.r < 30
                    /\ p.b < 30
        IN  /\ key => pix.out.a = 0
            /\ (dark /\ p.a > 0) => pix.out.a > 0

(***************************************************************************)
(* C25: while the guarded callback runs the skeleton's time scale is 0,    *)
(* whatever pause, play, reset and toggle did before the call, so that a   *)
(* ticker update during the export leaves the track time where it is.      *)
(***************************************************************************)
C25_FrozenDuringCallback ==
    pc \in {"cb", "cb_pending"} =>
        /\ skel[spineCaptured].timeScale = 0
        /\ skel[spineCaptured].hasTrack =>
              skel[spineCaptured].trackTime = pre.trackTime

(***************************************************************************)
(* C26: a video export of an animation of d seconds renders                *)
(* N = ceil(d * 30) frames, frame i at track time i / (N - 1) * d: the     *)
(* first frame at 0 and the last at d.                                     *)
(***************************************************************************)
C26_VideoSamplesLikeGif ==
    ex.fmt = "video" =>
        LET d == skel[spineCaptured].dur
            N == CeilDiv(d * 30, 60)
        IN  /\ ex.encoded => Len(ex.frames) = N
            /\ \A k \in 1..Len(ex.frames) :
                  LET t == RMul(R(k - 1, N - 1), RInt(d))
                  IN  RLeq(ex.frames[k].time, t) /\ RLeq(t, ex.frames[k].time)

(***************************************************************************)
(* C27: over video exports in a row, a progress event emitted during       *)
(* export k calls the callback supplied to export k exactly once and calls *)
(* no callback of an export that has settled.                              *)
(***************************************************************************)
C27_ProgressOnlyCurrent ==
    /\ prog.stale = {}
    /\ (prog.k > 0 /\ prog.listeners[Len(prog.listeners)].cb) => prog.own = prog.ev

(***************************************************************************)
(* C28: from guard entry until the export has settled, the skeleton the    *)
(* export borrowed is not destroyed and is still the controller's current  *)
(* one, whatever the store does in between (a load that completes, a       *)
(* premultiplied-alpha toggle, a reset).                                   *)
(***************************************************************************)
C28_BorrowedSkeletonLive ==
    (pc \notin {"idle", "he_call", "settled"} /\ spineCaptured # NoSpine) =>
        /\ ~skel[spineCaptured].destroyed
        /\ spineAnimationRef = spineCaptured

(***************************************************************************)
(* C29: when every skeleton load in flight has completed, the store's      *)
(* spine is the one built by the most recent request, with the store's     *)
(* current premultipliedAlpha, in whatever order the loads finished.       *)
(***************************************************************************)
C29_LastRequestWins ==
    (ld.inflight = {} /\ ld.issued > 0) => ld.spine.pma = ld.pma

(***************************************************************************)
(* C30: every frame of a GIF export of an animation of duration d > 0 is   *)
(* rendered at a track time that is a number in [0, d], the first frame at *)
(* 0 and the last at d, one-frame exports included.                        *)
(***************************************************************************)
C30_GifTimesDefined ==
    ex.fmt = "gif" =>
        LET d == RInt(skel[spineCaptured].dur)
            n == Len(ex.frames)
        IN  /\ \A k \in 1..n :
                  /\ ex.frames[k].time.d # 0
                  /\ RLeq(RInt(0), ex.frames[k].time)
                  /\ RLeq(ex.frames[k].time, d)
            /\ n > 0 => RLeq(ex.frames[1].time, RInt(0))
            /\ (n > 0 /\ ex.encoded) => RLeq(d, ex.frames[n].time)

=============================================================================
